---- MODULE Spec2Model ----
(***************************************************************************)
(* Model of mcp-k8s-selfhealing.py: the /manage handler of a remediation   *)
(* engine that resolves a pod to its deployment, reads the deployment,     *)
(* decides a new memory limit or replica count and patches it.             *)
(*                                                                         *)
(* Strings that the code parses or formats (memory quantities) are         *)
(* sequences of one-character strings; names and tokens that the code only *)
(* compares or copies are TLA+ strings.  An optional value (Python None or *)
(* a value) is a sequence of length 0 or 1.                                *)
(*                                                                         *)
(* manage_deployment is an `async def` that never awaits: the kubernetes   *)
(* client calls are blocking, so one server process runs one handler at a  *)
(* time, from start to end.  The store is shared with other clients (an    *)
(* operator, an autoscaler, another engine process): they are the Writer   *)
(* actions, which may act between any two store calls of a request.        *)
(***************************************************************************)
EXTENDS Integers, Sequences, FiniteSets, TLC

VARIABLES
    deployments,     \* store: <<namespace, name>> -> deployment object
    pods,            \* store: <<namespace, name>> -> pod object
    replicaSets,     \* store: <<namespace, name>> -> replica set object
    request,         \* the ManageRequest being handled and its header
    pc,              \* position of the handler
    target_deploy,   \* local of manage_deployment
    pod_owners,      \* resolve_to_deployment: pod.metadata.owner_references
    owner_idx,       \* resolve_to_deployment: position of the outer loop
    container_name,  \* container.name of the deployment that was read
    read_value,      \* what the read returned for the field (optional)
    current_value,   \* current_limit / current_replicas
    mib,             \* parse_memory_to_mib(current_limit)
    new_value,       \* new_limit_str / new_replicas
    outcome,         \* the HTTP response of the request
    calls,           \* store calls issued by the request, with their results
    served,          \* number of requests received so far
    writes           \* number of writes by other clients so far

vars == <<deployments, pods, replicaSets, request, pc, target_deploy,
          pod_owners, owner_idx, container_name, read_value, current_value,
          mib, new_value, outcome, calls, served, writes>>

storeVars == <<deployments, pods, replicaSets>>
localVars == <<target_deploy, pod_owners, owner_idx, container_name,
               read_value, current_value, mib, new_value>>

(***************************************************************************)
(* Bounds                                                                  *)
(***************************************************************************)
MaxRequests == 2
MaxWrites == 1
MaxParseNumber == 5

(***************************************************************************)
(* Constants of the program                                                *)
(***************************************************************************)
API_TOKEN == "TOKEN"
DefaultMib == 256
DefaultLimit == <<"2", "5", "6", "M", "i">>

None == <<>>
Some(v) == <<v>>

(***************************************************************************)
(* parse_memory_to_mib                                                     *)
(***************************************************************************)
Digits == {"0", "1", "2", "3", "4", "5", "6", "7", "8", "9"}
Letters ==
    {"a", "b", "c", "d", "e", "f", "g", "h", "i", "j", "k", "l", "m",
     "n", "o", "p", "q", "r", "s", "t", "u", "v", "w", "x", "y", "z",
     "A", "B", "C", "D", "E", "F", "G", "H", "I", "J", "K", "L", "M",
     "N", "O", "P", "Q", "R", "S", "T", "U", "V", "W", "X", "Y", "Z"}

DigitVal(c) ==
    CASE c = "0" -> 0 [] c = "1" -> 1 [] c = "2" -> 2 [] c = "3" -> 3
      [] c = "4" -> 4 [] c = "5" -> 5 [] c = "6" -> 6 [] c = "7" -> 7
      [] c = "8" -> 8 [] c = "9" -> 9

DigitChar(d) ==
    CASE d = 0 -> "0" [] d = 1 -> "1" [] d = 2 -> "2" [] d = 3 -> "3"
      [] d = 4 -> "4" [] d = 5 -> "5" [] d = 6 -> "6" [] d = 7 -> "7"
      [] d = 8 -> "8" [] d = 9 -> "9"

\* Length of the longest prefix of s[from..] made of characters of set cs
\* (the greedy match of \d+ or [a-zA-Z]*).
RECURSIVE RunLength(_, _, _)
RunLength(s, from, cs) ==
    IF from > Len(s) \/ s[from] \notin cs THEN 0
    ELSE 1 + RunLength(s, from + 1, cs)

\* int(match.group(1))
RECURSIVE DecimalValue(_)
DecimalValue(ds) ==
    IF ds = <<>> THEN 0
    ELSE 10 * DecimalValue(SubSeq(ds, 1, Len(ds) - 1)) + DigitVal(ds[Len(ds)])

\* Variant: binary kilobytes are rounded up to the next MiB
ScaleByUnitCeil(n, suffix) ==
    CASE suffix = <<"K", "i">> -> (n + 1023) \div 1024
      [] suffix = <<"M", "i">> -> n
      [] suffix = <<"G", "i">> -> n * 1024
      [] suffix = <<"K">>      -> (n * 1000) \div (1024 * 1024)
      [] suffix = <<"M">>      -> (n * 1000) \div 1024
      [] suffix = <<"G">>      -> n * 1000
      [] OTHER                 -> n

\* int(n * units.get(suffix, 1)).  Every multiplier of the table is a dyadic
\* rational (1/1024, 1000/2^20 = 125/2^17, 1000/1024 = 125/2^7), so the
\* float product is exact for n < 2^46 and int() truncates it.
ScaleByUnit(n, suffix) ==
    CASE suffix = <<"K", "i">> -> n \div 1024
      [] suffix = <<"M", "i">> -> n
      [] suffix = <<"G", "i">> -> n * 1024
      [] suffix = <<"K">>      -> (n * 1000) \div (1024 * 1024)
      [] suffix = <<"M">>      -> (n * 1000) \div 1024
      [] suffix = <<"G">>      -> n * 1000
      [] OTHER                 -> n

parse_memory_to_mib(mem_str) ==
    LET nd == RunLength(mem_str, 1, Digits)
        nl == RunLength(mem_str, nd + 1, Letters)
    IN  IF nd = 0 THEN DefaultMib
        ELSE ScaleByUnit(DecimalValue(SubSeq(mem_str, 1, nd)),
                         SubSeq(mem_str, nd + 1, nd + nl))

\* str(n) for n >= 0
RECURSIVE IntToStr(_)
IntToStr(n) ==
    IF n < 10 THEN <<DigitChar(n)>>
    ELSE IntToStr(n \div 10) \o <<DigitChar(n % 10)>>

(***************************************************************************)
(* Remediation policy                                                      *)
(***************************************************************************)
\* int(parse_memory_to_mib(current_limit) * 1.25): 1.25 is exact in binary
NewMib(current_limit) == (parse_memory_to_mib(current_limit) * 5) \div 4

\* f"{new_mib}Mi"
NewLimitStr(current_limit) == IntToStr(NewMib(current_limit)) \o <<"M", "i">>

\* deploy.spec.replicas or 1
CurrentReplicas(replicas) ==
    IF replicas = None \/ replicas[1] = 0 THEN 1 ELSE replicas[1]

\* Variant: the threshold of the high-availability floor is off by one
NewReplicasStrict(current_replicas) ==
    IF current_replicas > 2 THEN current_replicas + 1 ELSE 2

NewReplicas(current_replicas) ==
    IF current_replicas >= 2 THEN current_replicas + 1 ELSE 2

\* container.resources.limits.get("memory", "256Mi"), limits being a dict
LimitsGet(limits) ==
    IF "memory" \in DOMAIN limits THEN limits["memory"] ELSE DefaultLimit

\* Variant: only a credential that is present and wrong is refused
AuthorizedUnlessWrong(authorization) ==
    authorization = None \/ authorization = Some("Bearer " \o API_TOKEN)

Authorized(authorization) ==
    authorization = Some("Bearer " \o API_TOKEN)

KnownActions == {"increment_memory", "scale"}

(***************************************************************************)
(* Handler control flow                                                    *)
(***************************************************************************)
NoOutcome == [status_code |-> 0]

\* raise HTTPException(status_code=401, detail="Unauthorized")
UnauthorizedResponse == [status_code |-> 401, detail |-> "Unauthorized"]

\* the handler falls off its end: FastAPI answers 200 with body null
NullResponse == [status_code |-> 200, body |-> None]

\* Variant: building the response raises after the patch was sent
SuccessResponseRaises(message) ==
    [status_code |-> 500, detail |-> "KeyError"]

SuccessResponse(message) ==
    [status_code |-> 200,
     body |-> Some([status |-> "success", message |-> message])]

\* f"Vertical scaling: {target_deploy} increased to {new_limit_str}."
VerticalMessage(name, new_limit_str) ==
    [kind |-> "Vertical scaling", resource |-> name, new |-> new_limit_str]

\* f"Horizontal scaling: {target_deploy} scaled from {current_replicas} to
\*   {new_replicas} replicas."
HorizontalMessage(name, current_replicas, new_replicas) ==
    [kind |-> "Horizontal scaling", resource |-> name,
     previous |-> current_replicas, new |-> new_replicas]

\* Variant: a not-found answer sends the handler back to the read
OnExceptionRetryNotFound(detail) ==
    IF detail = "not_found"
    THEN [pc |-> "read_deploy", outcome |-> NoOutcome]
    ELSE [pc |-> "done", outcome |-> [status_code |-> 500, detail |-> detail]]

\* except Exception as e: raise HTTPException(status_code=500, detail=str(e))
\* The handler ends; nothing is retried.
OnException(detail) ==
    [pc |-> "done", outcome |-> [status_code |-> 500, detail |-> detail]]

\* Variant: the first successful patch does not end the handler
OnReturnPatchesAgain(response) ==
    [pc |-> IF \E i \in DOMAIN calls : calls[i].result = "ok"
                  /\ calls[i].op \in {"patch_deployment", "patch_deployment_scale"}
            THEN "done" ELSE "patch",
     outcome |-> response]

\* return {"status": "success", ...} (lines 67, 85): the handler ends
OnReturn(response) == [pc |-> "done", outcome |-> response]

(***************************************************************************)
(* The store: fixture and primitives                                       *)
(***************************************************************************)
Ref(kind, name) == [kind |-> kind, name |-> name]

Limits(memory) ==
    [k \in {"cpu", "memory"} |->
        IF k = "memory" THEN memory ELSE <<"5", "0", "0", "m">>]

CpuOnlyLimits == [k \in {"cpu"} |-> <<"5", "0", "0", "m">>]

InitPods ==
    LET P(owners) == [owner_references |-> owners]
        names == {"api-7f9-abc12", "bare", "solo", "batch-1", "db-0",
                  "multi", "lost", "odd"}
    IN  [key \in {"prod"} \X names |->
            CASE key[2] = "api-7f9-abc12" ->
                     P(Some(<<Ref("ReplicaSet", "api-7f9")>>))
              [] key[2] = "bare" -> P(Some(<<>>))
              [] key[2] = "solo" -> P(None)
              [] key[2] = "batch-1" -> P(Some(<<Ref("Job", "batch")>>))
              [] key[2] = "db-0" -> P(Some(<<Ref("ReplicaSet", "db-rs")>>))
              [] key[2] = "multi" ->
                     P(Some(<<Ref("ReplicaSet", "db-rs"),
                              Ref("ReplicaSet", "api-7f9")>>))
              [] key[2] = "lost" -> P(Some(<<Ref("ReplicaSet", "ghost")>>))
              [] key[2] = "odd" ->
                     P(Some(<<Ref("ReplicaSet", "rs-none"),
                              Ref("ReplicaSet", "api-7f9")>>))]

InitReplicaSets ==
    [key \in {"prod"} \X {"api-7f9", "db-rs", "rs-none"} |->
        CASE key[2] = "api-7f9" ->
                 [owner_references |-> Some(<<Ref("Deployment", "api")>>)]
          [] key[2] = "db-rs" ->
                 [owner_references |-> Some(<<Ref("StatefulSet", "db")>>)]
          [] key[2] = "rs-none" -> [owner_references |-> None]]

InitDeployments ==
    [key \in {<<"prod", "api">>, <<"default", "web">>} |->
        IF key[2] = "api"
        THEN [containers |->
                  <<[name |-> "app", limits |-> None],
                    [name |-> "sidecar",
                     limits |-> Some(Limits(<<"6", "4", "M", "i">>))]>>,
              replicas |-> Some(1)]
        ELSE [containers |->
                  <<[name |-> "web",
                     limits |-> Some(Limits(<<"2", "5", "6", "M", "i">>))]>>,
              replicas |-> Some(2)]]

\* Result of a read of `key` in collection `coll`; `fault` is an error the
\* transport injects ("none" when the call goes through).
ReadResult(coll, key, fault) ==
    IF fault # "none" THEN fault
    ELSE IF key \in DOMAIN coll THEN "ok" ELSE "not_found"

\* Variant: the patch replaces the container list (a JSON merge patch)
ReplaceContainers(deploy, cname, q) ==
    [deploy EXCEPT !.containers =
        <<[name |-> cname, limits |-> Some([k \in {"memory"} |-> q])]>>]

\* Strategic merge of {"resources": {"limits": {"memory": q}}} into the
\* container called cname: other keys of limits and other containers stay.
MergeMemoryLimit(deploy, cname, q) ==
    LET merged(limits) ==
            IF limits = None THEN Some([k \in {"memory"} |-> q])
            ELSE Some([k \in DOMAIN limits[1] \cup {"memory"} |->
                          IF k = "memory" THEN q ELSE limits[1][k]])
    IN  [deploy EXCEPT !.containers =
            [i \in DOMAIN deploy.containers |->
                IF deploy.containers[i].name = cname
                THEN [deploy.containers[i] EXCEPT !.limits = merged(@)]
                ELSE deploy.containers[i]]]

\* The scale subresource: {"spec": {"replicas": n}}
SetReplicas(deploy, n) == [deploy EXCEPT !.replicas = Some(n)]

InjectedReadFaults == {"transient"}
InjectedPatchFaults == {"conflict", "transient"}

(***************************************************************************)
(* Inputs                                                                  *)
(***************************************************************************)
Actions == {"increment_memory", "scale", "restart"}
\* <<target, namespace>> of a request: every pod of the fixture, a deployment
\* named directly, and names that do not exist in the namespace given
Addresses ==
    ({"api-7f9-abc12", "bare", "solo", "batch-1", "db-0", "multi", "lost",
      "odd", "api", "web"} \X {"prod"})
        \cup ({"web", "api"} \X {"default"})
Authorizations == {None, Some("Bearer TOKEN"), Some("Bearer wrong")}

Quantities ==
    {<<"2", "5", "6", "M", "i">>, <<"5", "1", "2", "K", "i">>, <<"1", "G">>,
     <<"g", "a", "r", "b", "a", "g", "e">>, <<"2", "M", "i">>}

WriterKey == <<"prod", "api">>

(***************************************************************************)
(* resolve_to_deployment                                                   *)
(***************************************************************************)
\* Variant: the kind of the owner is not looked at
NextOwnerAnyKind(owners, from, kind) ==
    IF from > Len(owners) THEN 0 ELSE from

\* Smallest index >= from of an owner of the given kind, 0 when there is none
RECURSIVE NextOwner(_, _, _)
NextOwner(owners, from, kind) ==
    IF from > Len(owners) THEN 0
    ELSE IF owners[from].kind = kind THEN from
    ELSE NextOwner(owners, from + 1, kind)

\* Variant: the handler goes on with the name the caller gave
AfterResolveLiteral(name) ==
    /\ target_deploy' = request.target
    /\ IF request.action \in KnownActions
       THEN pc' = "read_deploy" /\ outcome' = outcome
       ELSE pc' = "done" /\ outcome' = NullResponse

\* resolve_to_deployment has returned `name`; the handler branches on the
\* action (lines 56, 72) and, for an action it does not know, ends without
\* a return statement.
AfterResolve(name) ==
    /\ target_deploy' = name
    /\ IF request.action \in KnownActions
       THEN pc' = "read_deploy" /\ outcome' = outcome
       ELSE pc' = "done" /\ outcome' = NullResponse

Call(op, key, result) ==
    [op |-> op, namespace |-> key[1], name |-> key[2], result |-> result]

Init ==
    /\ deployments = InitDeployments
    /\ pods = InitPods
    /\ replicaSets = InitReplicaSets
    /\ request = [action |-> "", target |-> "", namespace |-> "",
                  authorization |-> None]
    /\ pc = "idle"
    /\ target_deploy = ""
    /\ pod_owners = <<>>
    /\ owner_idx = 0
    /\ container_name = ""
    /\ read_value = None
    /\ current_value = None
    /\ mib = None
    /\ new_value = None
    /\ outcome = NoOutcome
    /\ calls = <<>>
    /\ served = 0
    /\ writes = 0

\* A request arrives; lines 46-47 run before anything else.
Receive(action, target, namespace, authorization) ==
    /\ pc \in {"idle", "done"}
    /\ served < MaxRequests
    /\ served' = served + 1
    /\ request' = [action |-> action, target |-> target,
                   namespace |-> namespace, authorization |-> authorization]
    /\ target_deploy' = ""
    /\ pod_owners' = <<>>
    /\ owner_idx' = 0
    /\ container_name' = ""
    /\ read_value' = None
    /\ current_value' = None
    /\ mib' = None
    /\ new_value' = None
    /\ calls' = <<>>
    /\ IF Authorized(authorization)
       THEN pc' = "read_pod" /\ outcome' = NoOutcome
       ELSE pc' = "done" /\ outcome' = UnauthorizedResponse
    /\ UNCHANGED <<storeVars, writes>>

\* core_v1.read_namespaced_pod and the scan of its owners up to the first
\* ReplicaSet owner
ReadPod(fault) ==
    /\ pc = "read_pod"
    /\ LET key == <<request.namespace, request.target>>
           result == ReadResult(pods, key, fault)
       IN  /\ calls' = Append(calls, Call("read_pod", key, result))
           /\ IF result # "ok" \/ pods[key].owner_references = None
              THEN \* except: return name (API error, or iterating None)
                   /\ AfterResolve(request.target)
                   /\ UNCHANGED <<pod_owners, owner_idx>>
              ELSE LET owners == pods[key].owner_references[1]
                       i == NextOwner(owners, 1, "ReplicaSet")
                   IN  IF i = 0
                       THEN /\ AfterResolve(request.target)
                            /\ UNCHANGED <<pod_owners, owner_idx>>
                       ELSE /\ pod_owners' = owners
                            /\ owner_idx' = i
                            /\ pc' = "read_rs"
                            /\ UNCHANGED <<target_deploy, outcome>>
    /\ UNCHANGED <<storeVars, request, container_name, read_value,
                   current_value, mib, new_value, served, writes>>

\* apps_v1.read_namespaced_replica_set for the owner at owner_idx, the scan
\* of its owners, and the outer loop up to the next ReplicaSet owner
ReadReplicaSet(fault) ==
    /\ pc = "read_rs"
    /\ LET key == <<request.namespace, pod_owners[owner_idx].name>>
           result == ReadResult(replicaSets, key, fault)
       IN  /\ calls' = Append(calls, Call("read_replica_set", key, result))
           /\ IF result # "ok" \/ replicaSets[key].owner_references = None
              THEN /\ AfterResolve(request.target)
                   /\ UNCHANGED owner_idx
              ELSE LET rs_owners == replicaSets[key].owner_references[1]
                       d == NextOwner(rs_owners, 1, "Deployment")
                       j == NextOwner(pod_owners, owner_idx + 1, "ReplicaSet")
                   IN  IF d # 0
                       THEN /\ AfterResolve(rs_owners[d].name)
                            /\ UNCHANGED owner_idx
                       ELSE IF j = 0
                       THEN /\ AfterResolve(request.target)
                            /\ UNCHANGED owner_idx
                       ELSE /\ owner_idx' = j
                            /\ UNCHANGED <<pc, target_deploy, outcome>>
    /\ UNCHANGED <<storeVars, request, pod_owners, container_name, read_value,
                   current_value, mib, new_value, served, writes>>

\* apps_v1.read_namespaced_deployment and the decision (lines 57-64, 74-81)
ReadDeployment(fault) ==
    /\ pc = "read_deploy"
    /\ LET key == <<request.namespace, target_deploy>>
           result == ReadResult(deployments, key, fault)
           fail(detail) ==
               /\ pc' = OnException(detail).pc
               /\ outcome' = OnException(detail).outcome
               /\ UNCHANGED <<container_name, read_value, current_value,
                              mib, new_value>>
       IN  /\ calls' = Append(calls, Call("read_deployment", key, result))
           /\ IF result # "ok" THEN fail(result)
              ELSE IF request.action = "increment_memory"
              THEN LET container == deployments[key].containers[1]
                   IN  IF container.limits = None
                       THEN \* 'NoneType' object has no attribute 'get'
                            fail("AttributeError")
                       ELSE LET limits == container.limits[1]
                                current_limit == LimitsGet(limits)
                            IN  /\ container_name' = container.name
                                /\ read_value' =
                                       IF "memory" \in DOMAIN limits
                                       THEN Some(limits["memory"]) ELSE None
                                /\ current_value' = Some(current_limit)
                                /\ mib' = Some(parse_memory_to_mib(current_limit))
                                /\ new_value' = Some(NewLimitStr(current_limit))
                                /\ pc' = "patch"
                                /\ outcome' = outcome
              ELSE LET replicas == deployments[key].replicas
                       current_replicas == CurrentReplicas(replicas)
                   IN  /\ read_value' = replicas
                       /\ current_value' = Some(current_replicas)
                       /\ new_value' = Some(NewReplicas(current_replicas))
                       /\ pc' = "patch"
                       /\ UNCHANGED <<container_name, mib, outcome>>
    /\ UNCHANGED <<storeVars, request, target_deploy, pod_owners, owner_idx,
                   served, writes>>

\* apps_v1.patch_namespaced_deployment / patch_namespaced_deployment_scale
\* and the return of the success message.  The patch body carries no
\* resourceVersion: the store applies it to whatever it holds now.
Patch(fault) ==
    /\ pc = "patch"
    /\ LET key == <<request.namespace, target_deploy>>
           result == ReadResult(deployments, key, fault)
           op == IF request.action = "increment_memory"
                 THEN "patch_deployment" ELSE "patch_deployment_scale"
       IN  /\ calls' = Append(calls, Call(op, key, result))
           /\ IF result # "ok"
              THEN /\ pc' = OnException(result).pc
                   /\ outcome' = OnException(result).outcome
                   /\ UNCHANGED deployments
              ELSE LET response ==
                           IF request.action = "increment_memory"
                           THEN SuccessResponse(
                                    VerticalMessage(target_deploy, new_value[1]))
                           ELSE SuccessResponse(
                                    HorizontalMessage(target_deploy,
                                        current_value[1], new_value[1]))
                   IN  /\ deployments' =
                             [deployments EXCEPT ![key] =
                                 IF request.action = "increment_memory"
                                 THEN MergeMemoryLimit(@, container_name,
                                                       new_value[1])
                                 ELSE SetReplicas(@, new_value[1])]
                       /\ pc' = OnReturn(response).pc
                       /\ outcome' = OnReturn(response).outcome
    /\ UNCHANGED <<pods, replicaSets, request, localVars, served, writes>>

(***************************************************************************)
(* Other clients of the store                                              *)
(***************************************************************************)
WriterSetLimits(limits) ==
    /\ writes < MaxWrites
    /\ WriterKey \in DOMAIN deployments
    /\ deployments[WriterKey].containers[1].limits # limits
    /\ deployments' = [deployments EXCEPT
                          ![WriterKey].containers[1].limits = limits]
    /\ writes' = writes + 1
    /\ UNCHANGED <<pods, replicaSets, request, pc, localVars, outcome, calls,
                   served>>

WriterSetReplicas(replicas) ==
    /\ writes < MaxWrites
    /\ WriterKey \in DOMAIN deployments
    /\ deployments[WriterKey].replicas # replicas
    /\ deployments' = [deployments EXCEPT ![WriterKey].replicas = replicas]
    /\ writes' = writes + 1
    /\ UNCHANGED <<pods, replicaSets, request, pc, localVars, outcome, calls,
                   served>>

WriterDelete ==
    /\ writes < MaxWrites
    /\ WriterKey \in DOMAIN deployments
    /\ deployments' = [key \in DOMAIN deployments \ {WriterKey} |->
                          deployments[key]]
    /\ writes' = writes + 1
    /\ UNCHANGED <<pods, replicaSets, request, pc, localVars, outcome, calls,
                   served>>

WriterLimits ==
    {None, Some(CpuOnlyLimits)} \cup {Some(Limits(q)) : q \in Quantities}
WriterReplicas == {None, Some(0), Some(1), Some(2), Some(5)}

Next ==
    \/ \E a \in Actions, addr \in Addresses, auth \in Authorizations :
          Receive(a, addr[1], addr[2], auth)
    \/ \E fault \in {"none"} \cup InjectedReadFaults : ReadPod(fault)
    \/ \E fault \in {"none"} \cup InjectedReadFaults : ReadReplicaSet(fault)
    \/ \E fault \in {"none"} \cup InjectedReadFaults : ReadDeployment(fault)
    \/ \E fault \in {"none"} \cup InjectedPatchFaults : Patch(fault)
    \/ \E limits \in WriterLimits : WriterSetLimits(limits)
    \/ \E replicas \in WriterReplicas : WriterSetReplicas(replicas)
    \/ WriterDelete

Spec == Init /\ [][Next]_vars

(***************************************************************************)
(* The parser and the memory policy on their own: the quantity string is   *)
(* drawn from a set of inputs, then parsed (line 61, the call of           *)
(* parse_memory_to_mib) and the new limit is formatted (lines 61-62).      *)
(***************************************************************************)
ParseNumbers == (0..MaxParseNumber) \cup {100, 256, 512}

ParseSuffixes ==
    {<<>>, <<"K", "i">>, <<"M", "i">>, <<"G", "i">>, <<"K">>, <<"M">>, <<"G">>,
     <<"m">>, <<"k">>, <<"M", "i", "B">>}

MalformedQuantities ==
    {<<>>, <<"g", "a", "r", "b", "a", "g", "e">>, <<"M", "i">>,
     <<"-", "1", "M", "i">>}

ParseInputs ==
    {IntToStr(n) \o suffix : n \in ParseNumbers, suffix \in ParseSuffixes}
        \cup MalformedQuantities

InitParse ==
    /\ deployments = InitDeployments
    /\ pods = InitPods
    /\ replicaSets = InitReplicaSets
    /\ request = [action |-> "increment_memory", target |-> "",
                  namespace |-> "", authorization |-> None]
    /\ pc = "parse"
    /\ target_deploy = ""
    /\ pod_owners = <<>>
    /\ owner_idx = 0
    /\ container_name = ""
    /\ read_value = None
    /\ current_value \in {Some(q) : q \in ParseInputs}
    /\ mib = None
    /\ new_value = None
    /\ outcome = NoOutcome
    /\ calls = <<>>
    /\ served = 0
    /\ writes = 0

ParseCurrentLimit ==
    /\ pc = "parse"
    /\ mib' = Some(parse_memory_to_mib(current_value[1]))
    /\ pc' = "format"
    /\ UNCHANGED <<storeVars, request, target_deploy, pod_owners, owner_idx,
                   container_name, read_value, current_value, new_value,
                   outcome, calls, served, writes>>

FormatNewLimit ==
    /\ pc = "format"
    /\ new_value' = Some(NewLimitStr(current_value[1]))
    /\ pc' = "parsed"
    /\ UNCHANGED <<storeVars, request, target_deploy, pod_owners, owner_idx,
                   container_name, read_value, current_value, mib,
                   outcome, calls, served, writes>>

NextParse == ParseCurrentLimit \/ FormatNewLimit

SpecParse == InitParse /\ [][NextParse]_vars

(***************************************************************************)
(* Properties                                                              *)
(***************************************************************************)
\* name=target_deploy, namespace=request.namespace of the deployment calls
DeployKey == <<request.namespace, target_deploy>>

DeploymentOps == {"read_deployment", "patch_deployment", "patch_deployment_scale"}
PatchOps == {"patch_deployment", "patch_deployment_scale"}

\* The step in which the store applies the patch of the request
PatchApplied ==
    pc = "patch" /\ pc' = "done" /\ outcome'.status_code = 200

Succeeded ==
    pc = "done" /\ outcome.status_code = 200 /\ outcome.body # None

\* The field of deployment `deploy` that the action reads, as an optional
ObservedField(deploy, action) ==
    IF action = "scale" THEN deploy.replicas
    ELSE LET limits == deploy.containers[1].limits
         IN  IF limits = None \/ "memory" \notin DOMAIN limits[1] THEN None
             ELSE Some(limits[1]["memory"])

\* C1: a conflict answer to the patch is followed by a fresh read of the
\* deployment (while fewer than 3 patches were tried), and a patch that is
\* applied writes the value decided from the state the deployment has at
\* that moment, not from an earlier read.
C1_ConflictRereadLatestApplied ==
    [][ /\ ( /\ pc = "patch"
             /\ calls' # calls
             /\ calls'[Len(calls')].result = "conflict"
             /\ Cardinality({i \in DOMAIN calls' : calls'[i].op \in PatchOps}) < 3 )
           => pc' = "read_deploy"
        /\ PatchApplied =>
              LET now == ObservedField(deployments[DeployKey], request.action)
              IN  new_value =
                      IF request.action = "scale"
                      THEN Some(NewReplicas(CurrentReplicas(now)))
                      ELSE Some(NewLimitStr(IF now = None THEN DefaultLimit
                                            ELSE now[1]))
      ]_vars

\* C2: a patch is applied only when the deployment still holds the value
\* that the request read.
C2_PatchGatedByReadValue ==
    [][ PatchApplied =>
            ObservedField(deployments[DeployKey], request.action) = read_value
      ]_vars

\* C3: a request with an action other than increment_memory and scale ends
\* in an error response and issues no patch.
C3_UnknownActionRejected ==
    (pc = "done" /\ request.action \notin {"increment_memory", "scale"})
        => /\ outcome.status_code >= 400
           /\ \A i \in DOMAIN calls : calls[i].op \notin PatchOps

\* C4: a request whose credential is not "Bearer TOKEN" is answered 401 in
\* the step that receives it, with no store call and the store unchanged,
\* and no later step of that request calls the store.
C4_UnauthorizedNoStoreCall ==
    [][ (request'.authorization # Some("Bearer TOKEN") /\ pc' # "idle")
            => /\ pc' = "done"
               /\ outcome' = [status_code |-> 401, detail |-> "Unauthorized"]
               /\ calls' = <<>>
               /\ served' = served + 1 => UNCHANGED <<deployments, pods, replicaSets>>
      ]_vars

C4_Witness ==
    /\ pc = "done"
    /\ request.authorization = Some("Bearer wrong")
    /\ request.action = "scale"
    /\ outcome.status_code = 401
    /\ calls = <<>>

\* C5: the limit computed by increment_memory is strictly greater, in MiB,
\* than the current limit it was computed from.
C5_IncrementStrictlyGreater ==
    (pc \in {"patch", "done"} /\ request.action = "increment_memory"
        /\ new_value # None)
        => parse_memory_to_mib(new_value[1]) > parse_memory_to_mib(current_value[1])

\* C6: an increment_memory request that reads a deployment whose first
\* container has no memory limit (no limits map, or a map without a memory
\* entry) takes 256Mi as the current limit and goes on to patch 320Mi.
C6_NoLimitDefaultsTo256 ==
    [][ ( /\ pc = "read_deploy"
          /\ request.action = "increment_memory"
          /\ calls' # calls
          /\ calls'[Len(calls')].result = "ok"
          /\ ObservedField(deployments[DeployKey], "increment_memory") = None )
        => /\ pc' = "patch"
           /\ current_value' = Some(<<"2", "5", "6", "M", "i">>)
           /\ new_value' = Some(<<"3", "2", "0", "M", "i">>)
      ]_vars

\* C7: the replica count that a scale request writes is 2 when the count it
\* read is absent, 0 or 1, and c + 1 when it read c >= 2.
C7_ScaleTable ==
    [][ (PatchApplied /\ request.action = "scale")
            => /\ deployments'[DeployKey].replicas =
                     IF read_value = None THEN Some(2)
                     ELSE IF read_value[1] \in {0, 1} THEN Some(2)
                     ELSE Some(read_value[1] + 1)
               /\ new_value = deployments'[DeployKey].replicas
      ]_vars

C7_Witness ==
    /\ Succeeded
    /\ request.action = "scale"
    /\ read_value = Some(5)
    /\ outcome.body[1].message.new = 6

\* C8: a success response names the resource, the previous value exactly as
\* read from the store, and the new value written.
C8_SuccessCarriesPreviousAndNew ==
    Succeeded =>
        LET message == outcome.body[1].message
        IN  /\ message.resource = target_deploy
            /\ Some(message.new) = new_value
            /\ "previous" \in DOMAIN message
            /\ Some(message.previous) = read_value

\* C9: a not-found answer to the read or the patch of the deployment is the
\* last store call of the request, which ends with a 500 carrying it.
C9_NotFoundEndsRequest ==
    \A i \in DOMAIN calls :
        (calls[i].op \in DeploymentOps /\ calls[i].result = "not_found")
            => /\ i = Len(calls)
               /\ pc = "done"
               /\ outcome = [status_code |-> 500, detail |-> "not_found"]

C9_Witness ==
    /\ pc = "done"
    /\ calls # <<>>
    /\ calls[Len(calls)].op = "patch_deployment_scale"
    /\ calls[Len(calls)].result = "not_found"
    /\ outcome.status_code = 500

\* C10: a request fails with a transient transport error only after the
\* call that failed was attempted 3 times.
C10_TransientRetriedThrice ==
    (pc = "done" /\ outcome.status_code = 500 /\ outcome.detail = "transient")
        => Cardinality({i \in DOMAIN calls :
                            /\ calls[i].op = calls[Len(calls)].op
                            /\ calls[i].result = "transient"}) = 3

\* The store calls of resolve_to_deployment in the log of the request
ResolveOps == {"read_pod", "read_replica_set"}

\* C11: once resolution has ended with every read answered, the name it
\* returned is the name of a Deployment owner of a ReplicaSet owner of the
\* pod when the pod has such an owner, and the target of the request
\* otherwise; it is the target as well when a read failed; and a request is
\* never failed by resolution (a 500 always follows a deployment call).
C11_ResolveReturnsOwnerOrTarget ==
    (pc \in {"read_deploy", "patch", "done"} /\ calls # <<>>) =>
        LET ns == request.namespace
            podKey == <<ns, request.target>>
            readFailed == \E i \in DOMAIN calls :
                             calls[i].op \in ResolveOps /\ calls[i].result # "ok"
            owners == IF pods[podKey].owner_references = None THEN <<>>
                      ELSE pods[podKey].owner_references[1]
            deploymentNames ==
                {o.name : o \in
                    UNION {
                        LET rsKey == <<ns, owners[i].name>>
                        IN  IF owners[i].kind # "ReplicaSet"
                               \/ rsKey \notin DOMAIN replicaSets
                               \/ replicaSets[rsKey].owner_references = None
                            THEN {}
                            ELSE {r \in {replicaSets[rsKey].owner_references[1][j] :
                                         j \in DOMAIN replicaSets[rsKey].owner_references[1]} :
                                     r.kind = "Deployment"}
                        : i \in DOMAIN owners}}
        IN  /\ IF readFailed \/ deploymentNames = {}
               THEN target_deploy = request.target
               ELSE target_deploy \in deploymentNames
            /\ (pc = "done" /\ outcome.status_code = 500)
                  => calls[Len(calls)].op \in DeploymentOps

\* C12: over the lifetime of a request the store applies at most one of its
\* patches.
C12_AtMostOnePatchApplied ==
    Cardinality({i \in DOMAIN calls :
                    calls[i].op \in PatchOps /\ calls[i].result = "ok"}) <= 1

C12_Witness ==
    /\ Succeeded
    /\ request.action = "increment_memory"
    /\ served = 2
    /\ Cardinality({i \in DOMAIN calls :
                       calls[i].op \in PatchOps /\ calls[i].result = "ok"}) = 1

\* C13 as stated: a call of resolve issues at most 2 reads and changes
\* nothing in the store.
C13_ResolveAtMostTwoReads ==
    [][ (pc \in {"read_pod", "read_rs"} /\ calls' # calls)
            => /\ UNCHANGED <<deployments, pods, replicaSets>>
               /\ \A i \in DOMAIN calls' : calls'[i].op \in ResolveOps
               /\ Len(calls') <= 2
      ]_vars

\* C13 amended: a call of resolve issues one pod read and at most one
\* replica-set read per ReplicaSet owner reference of the pod, no other
\* call, and changes nothing in the store.
C13_ResolveReadsBoundedByOwners ==
    [][ (pc \in {"read_pod", "read_rs"} /\ calls' # calls)
            => /\ UNCHANGED <<deployments, pods, replicaSets>>
               /\ \A i \in DOMAIN calls' : calls'[i].op \in ResolveOps
               /\ Cardinality({i \in DOMAIN calls' : calls'[i].op = "read_pod"}) = 1
               /\ LET podKey == <<request.namespace, request.target>>
                      owners == IF calls'[1].result # "ok"
                                   \/ pods[podKey].owner_references = None
                                THEN <<>>
                                ELSE pods[podKey].owner_references[1]
                  IN  Len(calls') - 1 <=
                          Cardinality({i \in DOMAIN owners :
                                          owners[i].kind = "ReplicaSet"})
      ]_vars

C13_Witness ==
    /\ pc = "read_deploy"
    /\ request.target = "multi"
    /\ target_deploy = "api"
    /\ Len(calls) = 3
    /\ \A i \in DOMAIN calls : calls[i].op \in ResolveOps /\ calls[i].result = "ok"

\* C14: the step that applies a patch leaves pods, replica sets and every
\* other deployment as they were; a scale patch changes only the replica
\* count of its deployment; an increment_memory patch changes only the
\* memory entry of the limits of the first container (the replica count,
\* the other limits of that container and the other containers stay).
C14_PatchChangesOnlyItsField ==
    [][ PatchApplied =>
            LET old == deployments[DeployKey]
                new == deployments'[DeployKey]
            IN  /\ UNCHANGED <<pods, replicaSets>>
                /\ DOMAIN deployments' = DOMAIN deployments
                /\ \A k \in DOMAIN deployments \ {DeployKey} :
                       deployments'[k] = deployments[k]
                /\ IF request.action = "scale"
                   THEN /\ new.containers = old.containers
                        /\ new.replicas = new_value
                   ELSE /\ new.replicas = old.replicas
                        /\ Len(new.containers) = Len(old.containers)
                        /\ \A i \in DOMAIN old.containers :
                               i # 1 => new.containers[i] = old.containers[i]
                        /\ new.containers[1].name = old.containers[1].name
                        /\ LET oldKeys ==
                                   IF old.containers[1].limits = None THEN {}
                                   ELSE DOMAIN old.containers[1].limits[1]
                           IN  /\ DOMAIN new.containers[1].limits[1] =
                                      oldKeys \cup {"memory"}
                               /\ \A k \in oldKeys \ {"memory"} :
                                      new.containers[1].limits[1][k] =
                                          old.containers[1].limits[1][k]
                        /\ Some(new.containers[1].limits[1]["memory"]) = new_value
      ]_vars

C14_Witness ==
    /\ Succeeded
    /\ request.action = "increment_memory"
    /\ DeployKey = <<"prod", "api">>
    /\ DeployKey \in DOMAIN deployments
    /\ Len(deployments[DeployKey].containers) = 2
    /\ deployments[DeployKey].containers[1].limits =
           Some(Limits(<<"3", "2", "0", "M", "i">>))
    /\ read_value = None

\* C16: every deployment read and patch of a request is addressed, in the
\* namespace of the request, to the name resolution ended with: the first
\* Deployment owner of the last replica set read when that read succeeded
\* and found one, the target of the request otherwise.
C16_DeploymentCallsUseResolvedName ==
    \A i \in DOMAIN calls :
        calls[i].op \in DeploymentOps =>
            LET last == CHOOSE j \in DOMAIN calls :
                            /\ calls[j].op \in ResolveOps
                            /\ \A k \in DOMAIN calls :
                                   calls[k].op \in ResolveOps => k <= j
                rsKey == <<calls[last].namespace, calls[last].name>>
                rsOwners == IF calls[last].op = "read_replica_set"
                               /\ calls[last].result = "ok"
                               /\ replicaSets[rsKey].owner_references # None
                            THEN replicaSets[rsKey].owner_references[1]
                            ELSE <<>>
                found == {j \in DOMAIN rsOwners : rsOwners[j].kind = "Deployment"}
                resolved == IF found = {} THEN request.target
                            ELSE rsOwners[CHOOSE j \in found :
                                              \A k \in found : j <= k].name
            IN  /\ last < i
                /\ calls[i].namespace = request.namespace
                /\ calls[i].name = resolved

C16_Witness ==
    /\ Succeeded
    /\ request.target = "api-7f9-abc12"
    /\ calls[Len(calls)].op = "patch_deployment_scale"
    /\ calls[Len(calls)].name = "api"
    /\ calls[Len(calls)].namespace = "prod"

\* C18: the step that ends a request with an error response changes nothing
\* in the store, and none of the patches of that request was applied.
C18_FailureLeavesStoreUnchanged ==
    [][ ( /\ pc' = "done"
          /\ pc # "done" \/ served' # served
          /\ outcome'.status_code >= 400 )
        => /\ UNCHANGED <<deployments, pods, replicaSets>>
           /\ \A i \in DOMAIN calls' :
                  calls'[i].op \in PatchOps => calls'[i].result # "ok"
      ]_vars

C18_Witness ==
    /\ pc = "done"
    /\ outcome.status_code = 500
    /\ calls # <<>>
    /\ calls[Len(calls)].op = "patch_deployment"
    /\ calls[Len(calls)].result = "transient"

\* C19: the limit that an increment_memory patch writes denotes at least as
\* much memory as the quantity that was read, for a quantity made of digits
\* and a suffix of the table (amounts counted in units of 8 bytes).
C19_IncrementNeverLowers ==
    [][ (PatchApplied /\ request.action = "increment_memory" /\ read_value # None)
        => LET Amount(q) ==
                   LET nd == RunLength(q, 1, Digits)
                       n == DecimalValue(SubSeq(q, 1, nd))
                       suffix == SubSeq(q, nd + 1, Len(q))
                   IN  CASE suffix = <<"K", "i">> -> n * 128
                         [] suffix = <<"M", "i">> -> n * 131072
                         [] suffix = <<"G", "i">> -> n * 134217728
                         [] suffix = <<"K">> -> n * 125
                         [] suffix = <<"M">> -> n * 125000
                         [] suffix = <<"G">> -> n * 125000000
                         [] OTHER -> -1
           IN  Amount(read_value[1]) >= 0
                  => Amount(new_value[1]) >= Amount(read_value[1])
      ]_vars

\* C17 as stated: the parse of digits n followed by suffix s is the integer
\* part of n times the multiplier of s, with Ki = 1/1024, Mi = 1, Gi = 1024,
\* K = 1000/1024^2, M = 1000/1024, G = 1000^2/1024 and 1 for any other
\* suffix; a string that does not start with a digit parses to 256.
C17_ParseMatchesSpecTable ==
    mib # None =>
        LET text == current_value[1]
        IN  /\ (text = <<>> \/ text[1] \notin Digits) => mib = Some(256)
            /\ \A n \in 0..512, s \in ParseSuffixes :
                   text = IntToStr(n) \o s =>
                       mib = Some(CASE s = <<"K", "i">> -> n \div 1024
                                    [] s = <<"M", "i">> -> n
                                    [] s = <<"G", "i">> -> n * 1024
                                    [] s = <<"K">> -> (n * 1000) \div (1024 * 1024)
                                    [] s = <<"M">> -> (n * 1000) \div 1024
                                    [] s = <<"G">> -> (n * 1000 * 1000) \div 1024
                                    [] OTHER -> n)
            /\ text = <<"1", "G">> => mib = Some(976)

\* C17 amended: the same with G = 1000, so that "1G" parses to 1000.
C17_ParseMatchesCodeTable ==
    mib # None =>
        LET text == current_value[1]
        IN  /\ (text = <<>> \/ text[1] \notin Digits) => mib = Some(256)
            /\ \A n \in 0..512, s \in ParseSuffixes :
                   text = IntToStr(n) \o s =>
                       mib = Some(CASE s = <<"K", "i">> -> n \div 1024
                                    [] s = <<"M", "i">> -> n
                                    [] s = <<"G", "i">> -> n * 1024
                                    [] s = <<"K">> -> (n * 1000) \div (1024 * 1024)
                                    [] s = <<"M">> -> (n * 1000) \div 1024
                                    [] s = <<"G">> -> n * 1000
                                    [] OTHER -> n)
            /\ text = <<"2", "5", "6", "M", "i">> => mib = Some(256)
            /\ text = <<"1", "G", "i">> => mib = Some(1024)
            /\ text = <<"5", "1", "2", "K", "i">> => mib = Some(0)
            /\ text = <<"1", "0", "0", "M">> => mib = Some(97)
            /\ text = <<"1", "G">> => mib = Some(1000)
            /\ text = <<"g", "a", "r", "b", "a", "g", "e">> => mib = Some(256)

C17_Witness ==
    /\ pc = "parsed"
    /\ current_value = Some(<<"1", "G">>)
    /\ mib = Some(1000)
    /\ new_value = Some(<<"1", "2", "5", "0", "M", "i">>)

====
